---- MODULE Spec2Model ----
(***************************************************************************)
(* AP::BitArray (include/AP/BitArray.hpp) and AP::Float                    *)
(* (include/AP/Float.hpp) as state machines.                               *)
(*                                                                         *)
(* A BitArray is the vector mBits: a sequence of limbs, least significant  *)
(* first.  mBits.at(i) of the source is m[i + 1] here.  The source's limb  *)
(* type BLOCK is uint32_t and its accumulators are uint64_t; the model     *)
(* keeps the same algorithms over limbs of width bits and accumulators of  *)
(* 2 * width bits: BlockBits where every limb value is enumerated,         *)
(* StringBlockBits where decimal strings are.                              *)
(* A local of the source that is read more than once is the parameter of   *)
(* the operator that models the rest of its function.                      *)
(***************************************************************************)
EXTENDS Integers, Sequences, FiniteSets, TLC

\* Width of one limb (BLOCK) in bits; 32 in the source.
BlockBits == 2

\* Largest bit length log2(x) of a BitArray the machine still operates on.
MaxBits == 6

\* Width of one limb when the object under test is built from a decimal
\* string: wide enough that a decimal digit times its power of ten fits in
\* one limb for every string within MaxDigits, as it does in a uint32_t for
\* the nine digits BitArray(std::string_view) adds at a time.
StringBlockBits == 16

\* The limb width of the build the machine runs: BlockBits for the machines
\* that enumerate limb values, StringBlockBits for the one that enumerates
\* decimal strings.  No action changes it.
VARIABLE width

Base == 2 ^ width

BlockMax == Base - 1

Min(a, b) == IF a < b THEN a ELSE b

Max(a, b) == IF a > b THEN a ELSE b

Abs(n) == IF n < 0 THEN -n ELSE n

\* n zero limbs: std::fill(mBits.begin(), mBits.end(), 0U) keeps the size.
\* (\o <<>> here and below has TLC hold the function as a sequence.)
Zeros(n) == [i \in 1..n |-> 0] \o <<>>

\* The mathematical value of a limb sequence.
RECURSIVE Val(_)
Val(m) == IF Len(m) = 0 THEN 0 ELSE m[1] + Base * Val(Tail(m))

\* The number of times the loop of log2 runs on a limb: its bit length.
RECURSIVE BitLen(_)
BitLen(v) == IF v = 0 THEN 0 ELSE 1 + BitLen(v \div 2)

\* Bit idx of a limb.
LimbBit(v, idx) == (v \div (2 ^ idx)) % 2

\* BitArray(uint64_t v): limb 0 is the low half, limb 1 the high half if not 0.
BitArrayU64(v) ==
    IF v \div Base # 0 THEN <<v % Base, (v \div Base) % Base>>
    ELSE <<v % Base>>

\* void BitArray::reduce()
RECURSIVE reduce(_)
reduce(m) ==
    IF Len(m) > 1 /\ m[Len(m)] = 0 THEN reduce(SubSeq(m, 1, Len(m) - 1))
    ELSE m

\* BitArray(const BitArray&): copies and reduces.
Copy(m) == reduce(m)

\* void BitArray::clear()
clear == <<0>>

\* uint64_t log2(const BitArray&)
log2(b) == (Len(b) - 1) * width + BitLen(b[Len(b)])

\* BLOCK BitArray::getBlock(size_t)
getBlock(m, index) == m[index + 1]

\* operator<=>(const BitArray&): limb counts first, then limbs from the top.
RECURSIVE CompareLimbs(_, _, _)
CompareLimbs(a, b, i) ==
    IF i < 0 THEN "equal"
    ELSE IF a[i + 1] < b[i + 1] THEN "less"
    ELSE IF a[i + 1] > b[i + 1] THEN "greater"
    ELSE CompareLimbs(a, b, i - 1)

compare(a, b) ==
    IF Len(a) < Len(b) THEN "less"
    ELSE IF Len(a) > Len(b) THEN "greater"
    ELSE CompareLimbs(a, b, Len(a) - 1)

\* operator<=>(uint32_t)
compareU32(a, v) ==
    IF Len(a) > 1 THEN "greater"
    ELSE IF Len(a) = 0 THEN "less"
    ELSE IF a[1] < v THEN "less"
    ELSE IF a[1] > v THEN "greater"
    ELSE "equal"

\* operator==(const BitArray&)
Equal(a, b) == compare(a, b) = "equal"

\* operator==(uint32_t)
EqualU32(a, v) == compareU32(a, v) = "equal"

\* *this >= other, from operator<=>
GreaterEq(a, b) == compare(a, b) # "less"

\* operator<<=(uint32_t n): the loop over the limbs, o the accumulator.
RECURSIVE ShlLoop(_, _, _, _)
ShlStore(m, r, i, o) == ShlLoop([m EXCEPT ![i + 1] = o % Base], r, i + 1, o)

ShlLoop(m, r, i, overflow) ==
    IF i < Len(m)
    THEN ShlStore(m, r, i, m[i + 1] * (2 ^ r) + (overflow \div Base))
    ELSE [bits |-> m, overflow |-> overflow \div Base]

ShlFinish(st) ==
    reduce(IF st.overflow # 0 THEN Append(st.bits, st.overflow % Base)
           ELSE st.bits)

ShiftLeft(m, n) ==
    ShlFinish(ShlLoop(Zeros(n \div width) \o m, n % width, 0, 0))

\* operator>>=(uint32_t n): whole limbs, then the remaining bits.
\* The shift by the rest without the bits that come down from the next limb.
ShrBitsWithinLimb(m, r) ==
    IF r # 0 THEN [i \in 1..Len(m) |-> m[i] \div (2 ^ r)] \o <<>> ELSE m

ShrBlocks(m, blocks) ==
    IF blocks > 0
    THEN IF blocks >= Len(m) THEN Zeros(Len(m))
         ELSE SubSeq(m, blocks + 1, Len(m))
    ELSE m

ShrBits(m, r) ==
    IF r # 0
    THEN [i \in 1..Len(m) |->
             IF i < Len(m)
             THEN (m[i] \div (2 ^ r)) + (m[i + 1] % (2 ^ r)) * (2 ^ (width - r))
             ELSE m[i] \div (2 ^ r)] \o <<>>
    ELSE m

ShiftRight(m, n) == reduce(ShrBits(ShrBlocks(m, n \div width), n % width))

\* operator+=(const BitArray&): the loop over the limbs both have.
RECURSIVE AddCommon(_, _, _, _)
AddCommonStore(a, b, i, o) ==
    AddCommon([a EXCEPT ![i + 1] = o % Base], b, i + 1, o)

AddCommon(a, b, i, overflow) ==
    IF i < Min(Len(a), Len(b))
    THEN AddCommonStore(a, b, i, a[i + 1] + b[i + 1] + (overflow \div Base))
    ELSE [bits |-> a, i |-> i, overflow |-> overflow]

\* for(; i < other.mBits.size(); ++i)
RECURSIVE AddRest(_, _, _, _)
AddRestStore(a, b, i, o) == AddRest(Append(a, o % Base), b, i + 1, o)

AddRest(a, b, i, overflow) ==
    IF i < Len(b) THEN AddRestStore(a, b, i, b[i + 1] + (overflow \div Base))
    ELSE [bits |-> a, i |-> i, overflow |-> overflow]

\* for(; overflow != 0U; ++i): mBits.at(i) += ... wraps in the limb's width.
RECURSIVE AddCarry(_, _, _)
AddCarry(a, i, overflow) ==
    IF overflow # 0
    THEN AddCarry(IF i < Len(a)
                  THEN [a EXCEPT ![i + 1] = (a[i + 1] + (overflow % Base)) % Base]
                  ELSE Append(a, overflow % Base),
                  i + 1, overflow \div Base)
    ELSE a

AddFinish(s) == AddCarry(s.bits, s.i, s.overflow \div Base)

AddTail(s, b) == AddFinish(AddRest(s.bits, b, s.i, s.overflow))

AddAssign(a, b) ==
    IF Equal(a, b) THEN ShiftLeft(a, 1) ELSE AddTail(AddCommon(a, b, 0, 0), b)

\* operator+=(uint32_t)
AddAssignU32(a, v) ==
    AddCarry([a EXCEPT ![1] = (a[1] + v) % Base], 1, (a[1] + v) \div Base)

\* void BitArray::invert(uint32_t digits): whole limbs, then the rest.
InvertBlocks(m, blocks) ==
    [i \in 1..Max(Len(m), blocks) |->
        IF i <= blocks
        THEN IF i <= Len(m) THEN BlockMax - m[i] ELSE BlockMax
        ELSE m[i]] \o <<>>

InvertRest(m, blocks, r) ==
    IF r = 0 THEN m
    ELSE IF Len(m) > blocks
    THEN [m EXCEPT ![blocks + 1] = (2 ^ r - 1) - (@ % (2 ^ r))]
    ELSE Append(m, 2 ^ r - 1)

invert(m, digits) ==
    InvertRest(InvertBlocks(m, digits \div width),
               digits \div width, digits % width)

\* void BitArray::setBit(size_t index, uint8_t value): mBits.insert at
\* mBits.begin(), then the bit.
SetBitGrow(m, blocks) ==
    IF blocks >= Len(m) THEN Zeros(blocks - Len(m) + 1) \o m ELSE m

SetBitAt(m, blocks, idx, value) ==
    [m EXCEPT ![blocks + 1] =
        IF value # 0 THEN @ + (1 - LimbBit(@, idx)) * (2 ^ idx)
        ELSE @ - LimbBit(@, idx) * (2 ^ idx)]

setBit(m, index, value) ==
    SetBitAt(SetBitGrow(m, index \div width),
             index \div width, index % width, value)

\* uint8_t BitArray::getBit(size_t index) const: the masked limb, returned as
\* a uint8_t.
getBit(m, index) ==
    (LimbBit(getBlock(m, index \div width), index % width)
        * (2 ^ (index % width))) % (2 ^ 8)

\* operator-=(const BitArray&): this the larger operand, tmp the smaller.
SubClearTop(sum, bits) ==
    IF log2(sum) > bits THEN setBit(sum, log2(sum) - 1, 0) ELSE sum

SubBorrow(this, tmp, bits) ==
    SubClearTop(AddAssignU32(AddAssign(this, invert(tmp, bits)), 1), bits)

SubOrdered(this, tmp) == SubBorrow(this, tmp, log2(this))

SubAssign(a, b) ==
    IF Equal(a, b) THEN reduce(Zeros(Len(a)))
    ELSE IF EqualU32(a, 0) THEN reduce(b)
    ELSE IF ~EqualU32(b, 0)
    THEN reduce(IF compare(b, a) = "greater" THEN SubOrdered(b, a)
                ELSE SubOrdered(a, b))
    ELSE reduce(a)

\* operator*=(const BitArray&): shift-and-add over the bits of other.
RECURSIVE MulLoop(_, _, _, _, _)
MulAdd(this, tmp, other, i) == MulLoop(AddAssign(this, tmp), tmp, other, i + 1, 1)

MulLoop(this, tmp, other, i, count) ==
    IF i < log2(other)
    THEN IF LimbBit(getBlock(other, i \div width), i % width) = 1
         THEN MulAdd(this, ShiftLeft(tmp, count), other, i)
         ELSE MulLoop(this, tmp, other, i + 1, count + 1)
    ELSE this

MulAssign(a, b) == reduce(MulLoop(Zeros(Len(a)), Copy(a), b, 0, 0))

\* operator*=(const BitArray& other) called as a *= a: other is *this, which
\* the std::fill has set to 0 before the loop reads it; no bit of it is set,
\* so *this is never added to.
MulAssignSelf(a) == MulAssign(a, Zeros(Len(a)))

\* size_t BitArray::leftAlign(): the new value and the returned shift.
LeftAlignBy(m, lShift) == [bits |-> ShiftLeft(m, lShift), shift |-> lShift]

leftAlign(m) ==
    IF ~EqualU32(m, 0)
    THEN LeftAlignBy(m, width - (log2(m) - (Len(m) - 1) * width))
    ELSE [bits |-> m, shift |-> 0]

\* Leading limbs equal to 0, counted from limb 0 (the loop of rightAlign).
RECURSIVE EmptyBlocks(_, _)
EmptyBlocks(m, i) ==
    IF i < Len(m) /\ m[i + 1] = 0 THEN 1 + EmptyBlocks(m, i + 1) ELSE 0

\* multiplyDeBruijnBitPosition[((v & -v) * 0x077CB531U) >> 27]: the index of
\* the lowest set bit of v, and entry 0 of the table, 0, for v = 0.
RECURSIVE TrailingZeros(_)
TrailingZeros(v) ==
    IF v = 0 \/ v % 2 = 1 THEN 0 ELSE 1 + TrailingZeros(v \div 2)

\* size_t BitArray::rightAlign(): the new value and the returned shift.
RightAlignBy(m, shift, empty_blocks) ==
    [bits |-> reduce(ShiftRight(m, shift)),
     shift |-> shift + empty_blocks * width]

RightAlignBits(m, empty_blocks) ==
    RightAlignBy(m, TrailingZeros(m[1]), empty_blocks)

RightAlignBlocks(m, empty_blocks) ==
    RightAlignBits(ShiftRight(m, empty_blocks * width), empty_blocks)

rightAlign(m) ==
    IF EqualU32(m, 0) THEN [bits |-> m, shift |-> 0]
    ELSE RightAlignBlocks(m, EmptyBlocks(m, 0))

\* The inner loop of divide.  DivSubtract: result.setBit(i, 1U);
\* *this -= denominator; denominator >>= i;
DivSubtract(this, denominator, i, result) ==
    [this |-> SubAssign(this, denominator),
     denominator |-> ShiftRight(denominator, i),
     result |-> setBit(result, i, 1)]

\* After denominator <<= i: one more doubling if it still fits, then the
\* denominator >>= 1U that ends the search.
DivStride(this, denominator, i, result) ==
    IF GreaterEq(this, denominator)
    THEN DivSubtract(this, ShiftRight(ShiftLeft(denominator, 1), 1), i + 1, result)
    ELSE DivSubtract(this, ShiftRight(denominator, 1), i, result)

\* After denominator <<= 1U.
DivDoubled(this, denominator, result) ==
    IF GreaterEq(this, denominator)
    THEN DivStride(this,
                   ShiftLeft(denominator, log2(this) - log2(denominator)),
                   log2(this) - log2(denominator), result)
    ELSE DivSubtract(this, ShiftRight(denominator, 1), 0, result)

DivStep(this, denominator, result) ==
    DivDoubled(this, ShiftLeft(denominator, 1), result)

\* while (*this >= denominator): a pass that changes neither *this nor
\* denominator repeats for ever.
RECURSIVE DivInner(_, _, _)
DivAgain(this, denominator, s) ==
    IF s.this = this /\ s.denominator = denominator
    THEN [this |-> this, denominator |-> denominator, result |-> s.result,
          hangs |-> TRUE]
    ELSE DivInner(s.this, s.denominator, s.result)

DivInner(this, denominator, result) ==
    IF ~GreaterEq(this, denominator)
    THEN [this |-> this, denominator |-> denominator, result |-> result,
          hangs |-> FALSE]
    ELSE DivAgain(this, denominator, DivStep(this, denominator, result))

\* while ((*this != 0U) && (shift <= accuracy)); DivShift: ++shift;
\* *this <<= 1U;
RECURSIVE DivOuter(_, _, _, _, _)
DivShift(s, shift, accuracy) ==
    IF s.hangs THEN [bits |-> s.result, hangs |-> TRUE]
    ELSE DivOuter(ShiftLeft(s.this, 1), s.denominator, s.result, shift + 1,
                  accuracy)

DivOuter(this, denominator, result, shift, accuracy) ==
    IF ~EqualU32(this, 0) /\ shift <= accuracy
    THEN DivShift(DivInner(this, denominator, result), shift, accuracy)
    ELSE [bits |-> result, hangs |-> FALSE]

\* size_t BitArray::divide(const BitArray&, uint32_t accuracy): the new value,
\* the returned shift, and whether the call never returns.
DivReturn(r, accuracy) ==
    [bits |-> r.bits, shift |-> accuracy, hangs |-> r.hangs]

divide(a, other, accuracy) ==
    DivReturn(DivOuter(ShiftLeft(a, accuracy), Copy(other), <<0>>, 0, accuracy),
              accuracy)

\* BitArray operator+(const BitArray&, const BitArray&): tmp is a copy, and
\* the value returned is copy-constructed from the reference += returns.
Plus(lhs, rhs) == Copy(AddAssign(Copy(lhs), rhs))

\* BitArray operator-(const BitArray&, const BitArray&)
Minus(lhs, rhs) == Copy(SubAssign(Copy(lhs), rhs))

\* BitArray operator<<(const BitArray&, uint32_t)
ShiftedLeft(lhs, n) == Copy(ShiftLeft(Copy(lhs), n))

\* BitArray operator>>(const BitArray&, uint32_t)
ShiftedRight(lhs, n) == Copy(ShiftRight(Copy(lhs), n))

(***************************************************************************)
(* AP::Float: a mantissa, a shift, a sign and a state.                     *)
(***************************************************************************)

POSITIVE == FALSE

NEGATIVE == TRUE

\* Number of bits divide appends below the binary point; 50 in the source.
DIVISION_ACCURACY == 3

\* The bits the string constructor builds for each decimal digit; 20 in the
\* source.
CONSTRUCTOR_MAX_ITERATIONS == 4

\* Largest bit length of a mantissa the Float machine still operates on.
MaxMantissaBits == 4

\* Largest magnitude of a shift the Float machine still operates on.
MaxShift == 2

\* Largest magnitude of an integer handed to a Float constructor.
MaxInt == 15

\* Float(): the default member initialisers.
FloatDefault ==
    [mantissa |-> <<0>>, shift |-> 0, sign |-> POSITIVE, state |-> "NORMAL"]

\* void Float::clear(): the sign is left as it is.
FloatClear(a) == [a EXCEPT !.mantissa = clear, !.shift = 0, !.state = "NORMAL"]

\* mShift -= mMantissa.rightAlign()
AlignedBy(a, r) == [a EXCEPT !.mantissa = r.bits, !.shift = @ - r.shift]

Aligned(a) == AlignedBy(a, rightAlign(a.mantissa))

\* Float(T input) for a signed integral T
FloatFromInt(input) ==
    Aligned([FloatDefault EXCEPT !.mantissa = BitArrayU64(Abs(input)),
                                 !.sign = IF input < 0 THEN NEGATIVE ELSE POSITIVE])

\* Float(double input) for a NaN, an infinity or a zero of either sign.
FloatFromSpecial(kind, negative) ==
    IF kind = "nan" THEN [FloatDefault EXCEPT !.state = "ERROR"]
    ELSE IF kind = "inf"
    THEN [FloatDefault EXCEPT !.state = "INF",
                              !.sign = IF negative THEN NEGATIVE ELSE POSITIVE]
    ELSE Aligned([FloatDefault EXCEPT
                      !.sign = IF negative THEN NEGATIVE ELSE POSITIVE])

\* int32_t Float::shiftToExponent() const
shiftToExponent(a) == log2(a.mantissa) - a.shift - 1

\* std::strong_ordering converted to std::partial_ordering
ToPartial(c) == IF c = "equal" THEN "equivalent" ELSE c

\* std::partial_ordering Float::operator<=>(const Float&) const, from the
\* two exponents on.
CompareExponents(a, b, this_exponent, other_exponent) ==
    IF this_exponent < other_exponent
    THEN IF a.sign = POSITIVE THEN "less" ELSE "greater"
    ELSE IF this_exponent > other_exponent
    THEN IF a.sign = POSITIVE THEN "greater" ELSE "less"
    ELSE ToPartial(compare(a.mantissa, b.mantissa))

FloatCompare(a, b) ==
    IF a.state = "ERROR" \/ b.state = "ERROR" THEN "unordered"
    ELSE IF a.sign = NEGATIVE /\ b.sign = POSITIVE THEN "less"
    ELSE IF a.sign = POSITIVE /\ b.sign = NEGATIVE THEN "greater"
    ELSE CompareExponents(a, b, shiftToExponent(a), shiftToExponent(b))

\* bool Float::operator==(const Float&) const
FloatEq(a, b) ==
    IF a.state = "ERROR" \/ b.state = "ERROR" THEN FALSE
    ELSE /\ a.state = b.state
         /\ a.sign = b.sign
         /\ a.shift = b.shift
         /\ Equal(a.mantissa, b.mantissa)

\* (x == 0.0) || (x == -0.0), through operator==(const T&)
IsZeroLiteral(a) ==
    \/ FloatEq(a, FloatFromSpecial("zero", FALSE))
    \/ FloatEq(a, FloatFromSpecial("zero", TRUE))

\* The error branch without its clear().
ToErrorUncleared(a) == [a EXCEPT !.state = "ERROR"]

\* The error branch of the four operators: clear(); mState = ERROR;
ToError(a) == [FloatClear(a) EXCEPT !.state = "ERROR"]

\* operator+= on two NORMAL values, from the aligned mantissas on: tm is
\* mMantissa, om is other.mMantissa, sh the common shift.
AddAligned(a, osign, tm, om, sh) ==
    Aligned([a EXCEPT
        !.mantissa = IF a.sign = osign THEN AddAssign(tm, om)
                     ELSE SubAssign(tm, om),
        !.shift = sh,
        !.sign = IF a.sign # osign /\ compare(om, tm) = "greater" THEN osign
                 ELSE a.sign])

\* Float& Float::operator+=(Float&& other)
FloatAddAssign(a, other) ==
    IF a.state = "ERROR" \/ other.state = "ERROR" THEN ToError(a)
    ELSE IF a.state = "INF"
    THEN IF other.state = "INF" /\ a.sign # other.sign THEN ToError(a) ELSE a
    ELSE IF other.state = "INF" THEN other
    ELSE AddAligned(a, other.sign,
                    IF a.shift < other.shift
                    THEN ShiftLeft(a.mantissa, other.shift - a.shift)
                    ELSE a.mantissa,
                    IF a.shift > other.shift
                    THEN ShiftLeft(other.mantissa, a.shift - other.shift)
                    ELSE other.mantissa,
                    Max(a.shift, other.shift))

\* Float(const Float&): the mantissa is copy-constructed.
FloatCopy(a) == [a EXCEPT !.mantissa = Copy(@)]

\* Float operator+(const Float& lhs, const Float& rhs): result is a copy of
\* lhs, and result += rhs hands a copy of rhs to operator+=(Float&&).
FloatPlus(lhs, rhs) ==
    FloatCopy(FloatAddAssign(FloatCopy(lhs), FloatCopy(rhs)))

\* operator-= without the flip of other's sign.
FloatSubAssignUnflipped(a, other) == FloatAddAssign(a, other)

\* Float& Float::operator-=(Float&& other)
FloatSubAssign(a, other) ==
    FloatAddAssign(a, [other EXCEPT
        !.sign = IF other.sign = POSITIVE THEN NEGATIVE ELSE POSITIVE])

\* Float& Float::operator*=(const Float& other)
FloatMulAssign(a, other) ==
    IF a.state = "ERROR" \/ other.state = "ERROR" THEN ToError(a)
    ELSE IF \/ a.state = "INF" /\ IsZeroLiteral(other)
            \/ IsZeroLiteral(a) /\ other.state = "INF"
    THEN ToError(a)
    ELSE IF a.state # "INF" /\ other.state # "INF"
    THEN Aligned([a EXCEPT
             !.sign = (a.sign # other.sign),
             !.shift = a.shift + other.shift,
             !.mantissa = MulAssign(a.mantissa, other.mantissa)])
    ELSE [FloatClear(a) EXCEPT !.sign = (a.sign # other.sign), !.state = "INF"]

\* operator*=(const Float& other) called as a *= a: other is *this.
FloatMulAssignSelf(a) ==
    IF a.state = "ERROR" THEN ToError(a)
    ELSE IF a.state = "INF" /\ IsZeroLiteral(a) THEN ToError(a)
    ELSE IF a.state # "INF"
    THEN Aligned([a EXCEPT
             !.sign = (a.sign # a.sign),
             !.shift = a.shift + a.shift,
             !.mantissa = MulAssignSelf(a.mantissa)])
    ELSE [FloatClear(a) EXCEPT !.sign = (a.sign # a.sign), !.state = "INF"]

\* operator/= on two NORMAL values whose divisor's mantissa is not 1:
\* d is what mMantissa.divide(...) leaves and returns.
DivQuotient(a, denominator, d) ==
    [f |-> Aligned([a EXCEPT
                !.mantissa = d.bits,
                !.shift = a.shift - denominator.shift + d.shift]),
     hangs |-> d.hangs]

\* operator/= after mSign ^= denominator.mSign
DivSigned(a, denominator) ==
    IF IsZeroLiteral(denominator)
    THEN [f |-> [FloatClear(a) EXCEPT !.state = "INF"], hangs |-> FALSE]
    ELSE IF denominator.state = "INF"
    THEN [f |-> FloatFromSpecial("zero", FALSE), hangs |-> FALSE]
    ELSE IF a.state # "INF"
    THEN IF ~Equal(denominator.mantissa, BitArrayU64(1))
         THEN DivQuotient(a, denominator,
                          divide(a.mantissa, denominator.mantissa,
                                 DIVISION_ACCURACY))
         ELSE [f |-> [a EXCEPT !.shift = a.shift - denominator.shift],
               hangs |-> FALSE]
    ELSE [f |-> a, hangs |-> FALSE]

\* Float& Float::operator/=(Float&& denominator): the new value, and whether
\* the call never returns.
FloatDivAssign(a, denominator) ==
    IF a.state = "ERROR" \/ denominator.state = "ERROR"
    THEN [f |-> ToError(a), hangs |-> FALSE]
    ELSE IF a.state = "INF" /\ denominator.state = "INF"
    THEN [f |-> ToError(a), hangs |-> FALSE]
    ELSE IF IsZeroLiteral(denominator) /\ IsZeroLiteral(a)
    THEN [f |-> ToError(a), hangs |-> FALSE]
    ELSE DivSigned([a EXCEPT !.sign = (a.sign # denominator.sign)], denominator)

\* Float abs(Float f)
FloatAbs(a) == [a EXCEPT !.sign = POSITIVE]

\* Float operator-(const Float& lhs, const Float& rhs)
FloatMinus(lhs, rhs) ==
    FloatCopy(FloatSubAssign(FloatCopy(lhs), FloatCopy(rhs)))

\* Float operator*(const Float& lhs, const Float& rhs)
FloatTimes(lhs, rhs) == FloatCopy(FloatMulAssign(FloatCopy(lhs), rhs))

\* By what multiple the mantissa may grow during sqrt.
SQRT_ACCURACY_INCREASE_RATIO == 4

\* Float(2.0): fraction 0 and binary exponent 1, right-aligned.
FloatTwo == [FloatDefault EXCEPT !.mantissa = BitArrayU64(1), !.shift = -1]

\* Float(SQRT_ACCURACY) is 2^-SqrtAccuracyShift, right-aligned:
\* std::numeric_limits<double>::min() is 2^-1022 in the source, some twenty
\* times DIVISION_ACCURACY, and a few times DIVISION_ACCURACY here.
SqrtAccuracyShift == 14

FloatSqrtAccuracy ==
    [FloatDefault EXCEPT !.mantissa = BitArrayU64(1), !.shift = SqrtAccuracyShift]

\* ((curr * curr) - f) / (curr * 2.0)
SqrtQuotient(f0, curr) ==
    FloatDivAssign(FloatMinus(FloatTimes(curr, curr), f0),
                   FloatTimes(curr, FloatTwo))

\* abs(abs(next) - abs(curr)) < SQRT_ACCURACY, through operator<=>
SqrtConverged(next, curr) ==
    FloatCompare(FloatAbs(FloatMinus(FloatAbs(next), FloatAbs(curr))),
                 FloatSqrtAccuracy) = "less"

\* The loop of sqrt: seen holds the iterates so far, and an iterate that
\* comes back makes the loop run for ever.
RECURSIVE SqrtLoop(_, _, _, _)
SqrtTest(f0, curr, next, max_size, seen) ==
    IF SqrtConverged(next, curr) THEN [f |-> curr, hangs |-> FALSE]
    ELSE IF Len(next.mantissa) > max_size THEN [f |-> curr, hangs |-> FALSE]
    ELSE IF next \in seen THEN [f |-> curr, hangs |-> TRUE]
    ELSE SqrtLoop(f0, next, max_size, seen \cup {next})

SqrtStep(f0, curr, q, max_size, seen) ==
    IF q.hangs THEN [f |-> curr, hangs |-> TRUE]
    ELSE SqrtTest(f0, curr, FloatMinus(curr, q.f), max_size, seen)

SqrtLoop(f0, curr, max_size, seen) ==
    SqrtStep(f0, curr, SqrtQuotient(f0, curr), max_size, seen)

\* std::optional<Float> sqrt(const Float& f) for a POSITIVE f: the value
\* returned, and whether the call never returns.
sqrt(f0) ==
    SqrtLoop(f0, FloatCopy(f0),
             Len(f0.mantissa) * SQRT_ACCURACY_INCREASE_RATIO, {FloatCopy(f0)})

(***************************************************************************)
(* Decimal strings.  A std::string_view is a sequence of characters, each  *)
(* a one-character string; s.at(i) of the source is s[i + 1] here.         *)
(***************************************************************************)

\* The code of the character c, which c - '0' and std::isdigit read.
Code(c) ==
    CASE c = "0" -> 48 [] c = "1" -> 49 [] c = "2" -> 50 [] c = "3" -> 51
      [] c = "4" -> 52 [] c = "5" -> 53 [] c = "6" -> 54 [] c = "7" -> 55
      [] c = "8" -> 56 [] c = "9" -> 57 [] c = "+" -> 43 [] c = "-" -> 45
      [] c = "." -> 46 [] c = " " -> 32 [] c = "e" -> 101

\* std::isdigit(c) != 0
isdigit(c) == Code(c) >= Code("0") /\ Code(c) <= Code("9")

\* std::string::npos: the position find returns when there is no match, and
\* the count of a substr that runs to the end of the string.
npos == -1

\* s.substr(pos, n): at most n characters from position pos on; all of them
\* for n = npos, and for a count the source computes below zero, which has
\* wrapped in size_t and is larger than any string.
substr(s, pos, n) ==
    SubSeq(s, pos + 1, IF n < 0 THEN Len(s) ELSE Min(pos + n, Len(s)))

\* s.find(c, pos): the position of the first c at or after pos.
RECURSIVE find(_, _, _)
find(s, c, pos) ==
    IF pos >= Len(s) THEN npos
    ELSE IF s[pos + 1] = c THEN pos
    ELSE find(s, c, pos + 1)

\* s.find_last_not_of(c, pos): the position of the last character at or
\* before pos that is not c.
RECURSIVE find_last_not_of(_, _, _)
find_last_not_of(s, c, pos) ==
    IF pos < 0 THEN npos
    ELSE IF s[pos + 1] # c THEN pos
    ELSE find_last_not_of(s, c, pos - 1)

\* std::string(n, c)
Repeat(n, c) == [i \in 1..n |-> c] \o <<>>

\* Float::parseString: the trailing zeros of decimal_str are dropped.
ParseStrip(whole_str, decimal_str, exp_str, sign, lastDigit) ==
    [whole_str |-> whole_str,
     decimal_str |->
        IF decimal_str # <<>>
        THEN IF lastDigit # npos THEN substr(decimal_str, 0, lastDigit + 1)
             ELSE IF decimal_str[1] = "0" THEN substr(decimal_str, 0, 0)
             ELSE decimal_str
        ELSE decimal_str,
     exp_str |-> exp_str,
     sign |-> sign]

\* The three substrings, cut at dot_pos and e_pos; skip is sign as the
\* position input.substr(sign, ...) starts at.  ParseCut hands on decimal_str.
ParseCut(whole_str, decimal_str, exp_str, sign) ==
    ParseStrip(whole_str, decimal_str, exp_str, sign,
               find_last_not_of(decimal_str, "0", Len(decimal_str) - 1))

ParseAt(input, sign, skip, dot_pos, e_pos) ==
    ParseCut(IF dot_pos # npos THEN substr(input, skip, dot_pos - skip)
             ELSE IF e_pos # npos THEN substr(input, skip, e_pos - skip)
             ELSE input,
             IF dot_pos # npos
             THEN IF e_pos # npos
                  THEN substr(input, dot_pos + 1, (e_pos - dot_pos) - 1)
                  ELSE substr(input, dot_pos + 1, npos)
             ELSE <<>>,
             IF e_pos # npos THEN substr(input, e_pos + 1, npos) ELSE <<>>,
             sign)

parseString(input) ==
    ParseAt(input,
            IF Len(input) > 0 /\ input[1] = "-" THEN NEGATIVE ELSE POSITIVE,
            IF Len(input) > 0 /\ input[1] = "-" THEN 1 ELSE 0,
            find(input, ".", 0), find(input, "e", 0))

\* bool Float::isNumber(std::string_view sv): a leading sign is skipped.
isNumber(sv) ==
    IF Len(sv) > 0
    THEN \A i \in (IF sv[1] = "-" \/ sv[1] = "+" THEN 2 ELSE 1)..Len(sv) :
            isdigit(sv[i])
    ELSE TRUE

\* int32_t Float::stringToInt(std::string_view s): the loop over the digits.
\* It is called on strings isNumber has accepted, of fewer than ten digits,
\* so no product and no sum leaves the range of its type.
RECURSIVE StringToIntLoop(_, _, _, _)
StringToIntLoop(s, i, digit_pos, result) ==
    IF i > Len(s) THEN result
    ELSE StringToIntLoop(s, i + 1, digit_pos - 1,
            IF s[i] # "0"
            THEN result + (Code(s[i]) - Code("0")) * (10 ^ digit_pos)
            ELSE result)

stringToInt(s) ==
    IF Len(s) > 0
    THEN IF s[1] = "+" THEN StringToIntLoop(substr(s, 1, npos), 1, Len(s) - 2, 0)
         ELSE IF s[1] = "-"
         THEN -StringToIntLoop(substr(s, 1, npos), 1, Len(s) - 2, 0)
         ELSE StringToIntLoop(s, 1, Len(s) - 1, 0)
    ELSE 0

\* Float::shiftStrings(whole_sv, decimal_sv, exp)
shiftStrings(whole_sv, decimal_sv, exp) ==
    IF exp > 0
    THEN IF Len(decimal_sv) > exp
         THEN [whole |-> whole_sv \o substr(decimal_sv, 0, exp),
               decimal |-> substr(decimal_sv, exp, npos)]
         ELSE [whole |-> whole_sv \o decimal_sv
                            \o Repeat(exp - Len(decimal_sv), "0"),
               decimal |-> <<>>]
    ELSE IF Len(whole_sv) > Abs(exp)
         THEN [whole |-> substr(decimal_sv, 0, Abs(exp)),
               decimal |-> substr(whole_sv, Abs(exp), npos) \o decimal_sv]
         ELSE [whole |-> <<>>,
               decimal |-> Repeat(Abs(exp) - Len(whole_sv), "0")
                              \o whole_sv \o decimal_sv]

\* static_cast<uint32_t>(c - '0'): the difference in the limb's unsigned type.
DigitU32(c) == (Code(c) - Code("0")) % Base

\* static_cast<uint32_t>(std::pow(10, n))
Pow10U32(n) == (10 ^ n) % Base

\* BitArray(std::string_view s), the loop over small_digits: i the place of
\* the character in small_digits.
RECURSIVE SmallDigits(_, _, _, _)
SmallDigits(this, small_digits, i, digit_pos) ==
    IF i > Len(small_digits) THEN this
    ELSE SmallDigits(
            IF small_digits[i] # "0"
            THEN AddAssignU32(this,
                    (DigitU32(small_digits[i]) * Pow10U32(digit_pos)) % Base)
            ELSE this,
            small_digits, i + 1, digit_pos - 1)

\* The decimal digits a limb always holds: the 9 of small_digits, of i >= 9U
\* and of 1000000000U for the 32-bit limb of the source.
LimbDigits == CHOOSE k \in 0..9 : 10 ^ k <= BlockMax /\ 10 ^ (k + 1) > BlockMax

\* for(i = digit_pos; i >= 9U; i -= 9U) tmp *= 1000000000U;
\* tmp *= static_cast<uint32_t>(std::pow(10, i));
RECURSIVE TimesPow10(_, _)
TimesPow10(tmp, i) ==
    IF i >= LimbDigits
    THEN TimesPow10(MulAssign(tmp, BitArrayU64(10 ^ LimbDigits)), i - LimbDigits)
    ELSE MulAssign(tmp, BitArrayU64(Pow10U32(i)))

\* The loop over large_digits.  LargeDigitAdd: *this += tmp; and the
\* std::fill that leaves tmp with its limbs set to 0.
RECURSIVE LargeDigits(_, _, _, _, _)
LargeDigitAdd(this, tmp, large_digits, i, digit_pos) ==
    LargeDigits(AddAssign(this, tmp), Zeros(Len(tmp)), large_digits, i + 1,
                digit_pos - 1)

LargeDigits(this, tmp, large_digits, i, digit_pos) ==
    IF i > Len(large_digits) THEN this
    ELSE IF large_digits[i] # "0"
    THEN LargeDigitAdd(this,
            TimesPow10([tmp EXCEPT ![1] = DigitU32(large_digits[i])], digit_pos),
            large_digits, i, digit_pos)
    ELSE LargeDigits(this, tmp, large_digits, i + 1, digit_pos - 1)

BitArrayStringSplit(s, digit_pos, split) ==
    SmallDigits(LargeDigits(<<0>>, <<0>>, substr(s, 0, split), 1, digit_pos),
                substr(s, split, npos), 1, digit_pos - split)

BitArrayString(s) ==
    BitArrayStringSplit(s, Len(s) - 1,
                        IF Len(s) - 1 > LimbDigits - 1
                        THEN (Len(s) - 1) - (LimbDigits - 1) ELSE 0)

\* Float(std::string_view input): the loop that builds the bits after the
\* binary point.  DecimalBit is its body after the two shifts.
RECURSIVE DecimalLoop(_, _, _, _)
DecimalBit(a, decimals, one, limit) ==
    IF compare(decimals, one) = "less"
    THEN DecimalLoop([a EXCEPT !.mantissa = setBit(@, 0, 0), !.shift = @ + 1],
                     decimals, one, limit)
    ELSE DecimalLoop([a EXCEPT !.mantissa = setBit(@, 0, 1), !.shift = @ + 1],
                     SubAssign(decimals, one), one, limit)

DecimalLoop(a, decimals, one, limit) ==
    IF ~EqualU32(decimals, 0) /\ a.shift < limit
    THEN DecimalBit([a EXCEPT !.mantissa = ShiftLeft(@, 1)],
                    ShiftLeft(decimals, 1), one, limit)
    ELSE a

\* The constructor from the strings the mantissa is built from: a is the
\* Float once mMantissa = BitArray(whole_str) is done.
FloatFromStrings(a, decimal_str) ==
    Aligned(IF decimal_str # <<>>
            THEN DecimalLoop(a, BitArrayString(decimal_str),
                    BitArrayString(<<"1">> \o Repeat(Len(decimal_str), "0")),
                    CONSTRUCTOR_MAX_ITERATIONS * Len(decimal_str))
            ELSE a)

\* whole_str and decimal_str after if(exp) { ... shiftStrings ... }
StringsBuilt(whole_str, decimal_str, exp) ==
    IF exp # 0 THEN shiftStrings(whole_str, decimal_str, exp)
    ELSE [whole |-> whole_str, decimal |-> decimal_str]

\* Whether the constructor returns early with mState = ERROR.
Rejected(p) ==
    \/ ~isNumber(p.exp_str)
    \/ ~isNumber(p.whole_str)
    \/ ~isNumber(p.decimal_str)

\* The constructor after parseString has returned p and after s, the
\* strings to build from, is known.
FloatBuilt(p, s) ==
    FloatFromStrings(
        [FloatDefault EXCEPT
            !.sign = p.sign,
            !.mantissa = IF s.whole # <<>> THEN BitArrayString(s.whole) ELSE @],
        s.decimal)

FloatParsed(p) ==
    IF Rejected(p) THEN [FloatDefault EXCEPT !.sign = p.sign, !.state = "ERROR"]
    ELSE FloatBuilt(p, StringsBuilt(p.whole_str, p.decimal_str,
                                    stringToInt(p.exp_str)))

\* Float(std::string_view input)
FloatFromString(input) == FloatParsed(parseString(input))

(***************************************************************************)
(* The machines.  One BitArray object, bits, and one Float object, f, are  *)
(* driven through their public operations.  A call is made on an idle      *)
(* object; pre/arg/bop and prev/other/op hold the call's name, its         *)
(* receiver before the call and its argument until the call has returned.  *)
(***************************************************************************)
VARIABLES bits, pre, arg, bop, f, prev, other, op, ord, hung, str, operands

vars ==
    <<bits, pre, arg, bop, f, prev, other, op, ord, hung, str, operands, width>>

bitsVars == <<bits, pre, arg, bop>>

floatVars == <<f, prev, other, op, ord>>

\* What the BitArray and Float operators leave alone: the call of a string
\* function, the limb width of the build and the Float objects the caller
\* holds to pass as right-hand operands.
stringVars == <<str, width, operands>>

\* No string has been handed to the machine.
NoString ==
    [input |-> <<>>, whole |-> <<>>, decimal |-> <<>>, exp |-> 0,
     new_whole |-> <<>>, new_decimal |-> <<>>]

NoArg == [b |-> <<0>>, n |-> 0, v |-> 0]

\* The values BitArray(uint64_t) constructs.
BitArrays == {BitArrayU64(v) : v \in 0..(Base * Base - 1)}

\* The Floats the constructors build.
Constructed ==
    {FloatFromInt(v) : v \in (-MaxInt)..MaxInt}
    \cup {FloatFromSpecial(k, n) : k \in {"inf", "zero"}, n \in BOOLEAN}
    \cup {FloatFromSpecial("nan", FALSE)}

\* Floats left by one operator on constructed ones: x - x, and quotients.
Derived ==
    {FloatSubAssign(FloatFromInt(v), FloatFromInt(v)) : v \in {2, -2}}
    \cup {FloatDivAssign(FloatFromInt(n), FloatFromInt(d)).f :
             n \in {1, 3, -3}, d \in {2, 4}}

Operands == Constructed \cup Derived

Init ==
    /\ width = BlockBits
    /\ operands = Operands
    /\ str = NoString
    /\ bits = <<0>>
    /\ pre = <<0>>
    /\ arg = NoArg
    /\ bop = "idle"
    /\ f = FloatDefault
    /\ prev = FloatDefault
    /\ other = FloatDefault
    /\ op = "idle"
    /\ ord = "none"
    /\ hung = FALSE

\* ---- BitArray ----

BitsIdle == ~hung /\ bop = "idle"

BitsSmall == BitsIdle /\ log2(bits) <= MaxBits

BitsCall(name, a, result) ==
    /\ bits' = result
    /\ pre' = bits
    /\ arg' = a
    /\ bop' = name
    /\ UNCHANGED <<floatVars, hung>>
    /\ UNCHANGED stringVars

\* bits = BitArray(v): nothing of the old value is left.
Construct(v) ==
    /\ BitsIdle
    /\ bits' = BitArrayU64(v)
    /\ pre' = BitArrayU64(v)
    /\ arg' = [NoArg EXCEPT !.n = v]
    /\ bop' = "construct"
    /\ UNCHANGED <<floatVars, hung>>
    /\ UNCHANGED stringVars

Add(b) ==
    /\ BitsSmall
    /\ BitsCall("add", [NoArg EXCEPT !.b = b], AddAssign(bits, b))

AddU32(v) ==
    /\ BitsSmall
    /\ BitsCall("addU32", [NoArg EXCEPT !.n = v], AddAssignU32(bits, v))

Sub(b) ==
    /\ BitsSmall
    /\ BitsCall("sub", [NoArg EXCEPT !.b = b], SubAssign(bits, b))

Mul(b) ==
    /\ BitsSmall
    /\ BitsCall("mul", [NoArg EXCEPT !.b = b], MulAssign(bits, b))

\* bits *= bits
MulSelf ==
    /\ BitsSmall
    /\ BitsCall("mulSelf", [NoArg EXCEPT !.b = bits], MulAssignSelf(bits))

\* d is what divide leaves; a call that never returns leaves nothing.
DivideTo(d) ==
    /\ bits' = IF d.hangs THEN bits ELSE d.bits
    /\ hung' = d.hangs

Divide(b, accuracy) ==
    /\ BitsSmall
    /\ DivideTo(divide(bits, b, accuracy))
    /\ pre' = bits
    /\ arg' = [NoArg EXCEPT !.b = b, !.n = accuracy]
    /\ bop' = "divide"
    /\ UNCHANGED floatVars
    /\ UNCHANGED stringVars

Shl(n) ==
    /\ BitsSmall
    /\ BitsCall("shl", [NoArg EXCEPT !.n = n], ShiftLeft(bits, n))

Shr(n) ==
    /\ BitsSmall
    /\ BitsCall("shr", [NoArg EXCEPT !.n = n], ShiftRight(bits, n))

SetBit(index, value) ==
    /\ BitsSmall
    /\ BitsCall("setBit", [NoArg EXCEPT !.n = index, !.v = value],
                setBit(bits, index, value))

Invert(n) ==
    /\ BitsSmall
    /\ BitsCall("invert", [NoArg EXCEPT !.n = n], invert(bits, n))

LeftAlign ==
    /\ BitsSmall
    /\ BitsCall("leftAlign", [NoArg EXCEPT !.n = leftAlign(bits).shift],
                leftAlign(bits).bits)

RightAlign ==
    /\ BitsSmall
    /\ BitsCall("rightAlign", [NoArg EXCEPT !.n = rightAlign(bits).shift],
                rightAlign(bits).bits)

Clear ==
    /\ BitsSmall
    /\ BitsCall("clear", NoArg, clear)

\* bits.getBit(index): the object is const; arg.v is the value returned.
\* getBlock throws for an index beyond the stored limbs.
GetBit(index) ==
    /\ BitsSmall
    /\ index \div width < Len(bits)
    /\ BitsCall("getBit", [NoArg EXCEPT !.n = index, !.v = getBit(bits, index)],
                bits)

\* bits = (bits + y) - y
AddSub(y) ==
    /\ BitsSmall
    /\ BitsCall("addSub", [NoArg EXCEPT !.b = y], Minus(Plus(bits, y), y))

\* bits = (bits << n) >> n
ShlShr(n) ==
    /\ BitsSmall
    /\ BitsCall("shlShr", [NoArg EXCEPT !.n = n],
                ShiftedRight(ShiftedLeft(bits, n), n))

\* The call returns: its argument and the old value are gone.
ReturnBits ==
    /\ ~hung
    /\ bop # "idle"
    /\ bop' = "idle"
    /\ pre' = bits
    /\ arg' = NoArg
    /\ UNCHANGED <<bits, floatVars, hung>>
    /\ UNCHANGED stringVars

NextBits ==
    \/ \E v \in 0..(Base * Base - 1) : Construct(v)
    \/ \E b \in BitArrays : Add(b)
    \/ \E v \in 0..BlockMax : AddU32(v)
    \/ \E b \in BitArrays : Sub(b)
    \/ \E b \in BitArrays : Mul(b)
    \/ MulSelf
    \/ \E b \in BitArrays, accuracy \in 0..DIVISION_ACCURACY : Divide(b, accuracy)
    \/ \E n \in 0..(2 * BlockBits + 1) : Shl(n)
    \/ \E n \in 0..(2 * BlockBits + 1) : Shr(n)
    \/ \E index \in 0..MaxBits, value \in {0, 1} : SetBit(index, value)
    \/ \E index \in 0..MaxBits : GetBit(index)
    \/ \E n \in 0..MaxBits : Invert(n)
    \/ LeftAlign
    \/ RightAlign
    \/ Clear
    \/ \E y \in BitArrays : AddSub(y)
    \/ \E n \in 0..(2 * BlockBits + 1) : ShlShr(n)
    \/ ReturnBits

SpecBits == Init /\ [][NextBits]_vars

\* ---- Float ----

FloatIdle == ~hung /\ op = "idle"

FloatSmall ==
    /\ FloatIdle
    /\ \/ f.state # "NORMAL"
       \/ log2(f.mantissa) <= MaxMantissaBits /\ Abs(f.shift) <= MaxShift

FloatCall(name, o, result) ==
    /\ f' = result
    /\ prev' = f
    /\ other' = o
    /\ op' = name
    /\ ord' = "none"
    /\ UNCHANGED <<bitsVars, hung>>
    /\ UNCHANGED stringVars

\* f = o: nothing of the old value is left.
Assign(o) ==
    /\ FloatIdle
    /\ f' = o
    /\ prev' = o
    /\ other' = o
    /\ op' = "assign"
    /\ ord' = "none"
    /\ UNCHANGED <<bitsVars, hung>>
    /\ UNCHANGED stringVars

PlusAssign(o) ==
    /\ FloatSmall
    /\ FloatCall("add", o, FloatAddAssign(f, o))

MinusAssign(o) ==
    /\ FloatSmall
    /\ FloatCall("sub", o, FloatSubAssign(f, o))

TimesAssign(o) ==
    /\ FloatSmall
    /\ FloatCall("mul", o, FloatMulAssign(f, o))

\* f *= f
TimesAssignSelf ==
    /\ FloatSmall
    /\ FloatCall("mulSelf", f, FloatMulAssignSelf(f))

\* d is what operator/= leaves; a call that never returns leaves nothing.
DivAssignTo(d) ==
    /\ f' = IF d.hangs THEN f ELSE d.f
    /\ hung' = d.hangs

DivAssign(o) ==
    /\ FloatSmall
    /\ DivAssignTo(FloatDivAssign(f, o))
    /\ prev' = f
    /\ other' = o
    /\ op' = "div"
    /\ ord' = "none"
    /\ UNCHANGED bitsVars
    /\ UNCHANGED stringVars

Compare(o) ==
    /\ FloatSmall
    /\ ord' = FloatCompare(f, o)
    /\ prev' = f
    /\ other' = o
    /\ op' = "cmp"
    /\ UNCHANGED <<bitsVars, f, hung>>
    /\ UNCHANGED stringVars

\* f == o
Equals(o) ==
    /\ FloatSmall
    /\ ord' = (IF FloatEq(f, o) THEN "true" ELSE "false")
    /\ prev' = f
    /\ other' = o
    /\ op' = "eq"
    /\ UNCHANGED <<bitsVars, f, hung>>
    /\ UNCHANGED stringVars

\* (f + o) == (o + f)
PlusCommuted(o) ==
    /\ FloatSmall
    /\ ord' = (IF FloatEq(FloatPlus(f, o), FloatPlus(o, f)) THEN "true"
               ELSE "false")
    /\ prev' = f
    /\ other' = o
    /\ op' = "addCommuted"
    /\ UNCHANGED <<bitsVars, f, hung>>
    /\ UNCHANGED stringVars

\* f = sqrt(f).value(); a NEGATIVE f gives std::nullopt and f stays.
Sqrt ==
    /\ FloatSmall
    /\ \E r \in {IF f.sign = NEGATIVE THEN [f |-> f, hangs |-> FALSE]
                 ELSE sqrt(f)} :
          /\ f' = (IF r.hangs THEN f ELSE r.f)
          /\ hung' = r.hangs
    /\ ord' = (IF f.sign = NEGATIVE THEN "nullopt" ELSE "none")
    /\ prev' = f
    /\ other' = FloatDefault
    /\ op' = "sqrt"
    /\ UNCHANGED bitsVars
    /\ UNCHANGED stringVars

ClearFloat ==
    /\ FloatSmall
    /\ FloatCall("clear", FloatDefault, FloatClear(f))

\* The call returns: its argument and the old value are gone.
Return ==
    /\ ~hung
    /\ op # "idle"
    /\ op' = "idle"
    /\ prev' = f
    /\ other' = FloatDefault
    /\ ord' = "none"
    /\ UNCHANGED <<f, bitsVars, hung>>
    /\ UNCHANGED stringVars

Next ==
    \/ \E o \in operands : Assign(o)
    \/ \E o \in operands : PlusAssign(o)
    \/ \E o \in operands : MinusAssign(o)
    \/ \E o \in operands : TimesAssign(o)
    \/ TimesAssignSelf
    \/ \E o \in operands : DivAssign(o)
    \/ \E o \in operands : Compare(o)
    \/ \E o \in operands : Equals(o)
    \/ \E o \in operands : PlusCommuted(o)
    \/ Sqrt
    \/ ClearFloat
    \/ Return

Spec == Init /\ [][Next]_vars

\* ---- Float from a decimal string ----

\* The characters the strings are made of.
Alphabet == {"0", "1", "5", "+", "-", ".", "e", " "}

\* Longest string of arbitrary characters handed to the constructor.
MaxStringLen == 4

\* Most decimal digits in a string handed to BitArray(std::string_view): each
\* digit times its power of ten is below 2 ^ StringBlockBits, as it is below
\* 2 ^ 32 for the nine small_digits of the source.
MaxDigits == 4

\* Largest exponent handed to shiftStrings directly.
MaxExp == 3

\* The strings of lo to hi digits.
DigitStrings(lo, hi) ==
    UNION {[1..n -> {c \in Alphabet : isdigit(c)}] : n \in lo..hi}

\* The strings handed to the constructor: every string over the alphabet up
\* to MaxStringLen, and the spellings sign w . d e x.
Inputs ==
    UNION {[1..n -> Alphabet] : n \in 0..MaxStringLen}
    \cup {sg \o w \o <<".">> \o d \o <<"e">> \o x :
            sg \in {<<>>, <<"+">>, <<"-">>},
            w \in DigitStrings(1, 2),
            d \in DigitStrings(0, 2),
            x \in {<<"1">>, <<"2">>, <<"+", "1">>, <<"-", "1">>, <<"-", "2">>}}

InitStrings ==
    /\ width = StringBlockBits
    /\ operands = {}
    /\ str = NoString
    /\ bits = <<0>>
    /\ pre = <<0>>
    /\ arg = NoArg
    /\ bop = "idle"
    /\ f = FloatDefault
    /\ prev = FloatDefault
    /\ other = FloatDefault
    /\ op = "idle"
    /\ ord = "none"
    /\ hung = FALSE

\* The strings BitArray(std::string_view) is called on stay within MaxDigits.
Fits(whole, decimal) == Len(whole) <= MaxDigits /\ Len(decimal) < MaxDigits

\* f = Float(input), for p = parseString(input) and s the strings the
\* mantissa is built from.  str keeps input, the substrings and s.
FromString(input) ==
    /\ FloatIdle
    /\ \E p \in {parseString(input)} :
          IF Rejected(p)
          THEN /\ f' = FloatParsed(p)
               /\ str' = [NoString EXCEPT !.input = input,
                                          !.whole = p.whole_str,
                                          !.decimal = p.decimal_str]
          ELSE \E s \in {StringsBuilt(p.whole_str, p.decimal_str,
                                      stringToInt(p.exp_str))} :
                  /\ Fits(s.whole, s.decimal)
                  /\ f' = FloatBuilt(p, s)
                  /\ str' = [input |-> input, whole |-> p.whole_str,
                             decimal |-> p.decimal_str,
                             exp |-> stringToInt(p.exp_str),
                             new_whole |-> s.whole, new_decimal |-> s.decimal]
    /\ prev' = f'
    /\ other' = FloatDefault
    /\ op' = "fromString"
    /\ ord' = "none"
    /\ UNCHANGED <<bitsVars, hung, width, operands>>

\* shiftStrings(whole_sv, decimal_sv, exp), called as the constructor does:
\* on two strings of digits and an exponent that is not 0.
ShiftStrings(whole_sv, decimal_sv, exp) ==
    /\ FloatIdle
    /\ exp # 0
    /\ op' = "shiftStrings"
    /\ str' = [input |-> <<>>, whole |-> whole_sv, decimal |-> decimal_sv,
               exp |-> exp,
               new_whole |-> shiftStrings(whole_sv, decimal_sv, exp).whole,
               new_decimal |-> shiftStrings(whole_sv, decimal_sv, exp).decimal]
    /\ UNCHANGED <<f, prev, other, ord, bitsVars, hung, width, operands>>

\* The statement ends: the constructed Float and the strings go out of scope.
ReturnString ==
    /\ ~hung
    /\ op # "idle"
    /\ op' = "idle"
    /\ f' = FloatDefault
    /\ prev' = FloatDefault
    /\ str' = NoString
    /\ UNCHANGED <<other, ord, bitsVars, hung, width, operands>>

\* A constructor or shiftStrings is called only once the last call is over.
NextStrings ==
    \/ FloatIdle /\ \E input \in Inputs : FromString(input)
    \/ FloatIdle /\ \E w \in DigitStrings(0, MaxDigits - 1),
                       d \in DigitStrings(0, 2),
                       exp \in (-MaxExp)..MaxExp : ShiftStrings(w, d, exp)
    \/ ReturnString

SpecStrings == InitStrings /\ [][NextStrings]_vars

\* ---- Decimals longer than a limb ----

\* Limb width for the decimals whose power of ten takes several limbs.
DecimalBlockBits == 4

\* Most digits after the decimal point of such a decimal.
MaxDecimals == 3

\* The strings W.D with one digit W and up to MaxDecimals digits D.
Decimals ==
    {<<w>> \o <<".">> \o d :
        w \in {"0", "1"},
        d \in UNION {[1..n -> {"0", "1", "2", "3", "4", "5", "6", "7", "8", "9"}] :
                        n \in 1..MaxDecimals}}

InitDecimals ==
    /\ width = DecimalBlockBits
    /\ operands = {}
    /\ str = NoString
    /\ bits = <<0>>
    /\ pre = <<0>>
    /\ arg = NoArg
    /\ bop = "idle"
    /\ f = FloatDefault
    /\ prev = FloatDefault
    /\ other = FloatDefault
    /\ op = "idle"
    /\ ord = "none"
    /\ hung = FALSE

NextDecimals ==
    \/ FloatIdle /\ \E input \in Decimals : FromString(input)
    \/ ReturnString

SpecDecimals == InitDecimals /\ [][NextDecimals]_vars

(***************************************************************************)
(* Host floating-point values.  A host float is one limb wide and a host   *)
(* double two limbs wide, laid out as sign, exponent, fraction; the        *)
(* source's 32-bit limb has 8 + 23 and 11 + 52 bits, and the constants of  *)
(* the conversions are written through the field widths.                   *)
(***************************************************************************)
HostBlockBits == 8
FloatExpBits == 3
DoubleExpBits == 4
MaxHostShift == 12

\* 23 and 52
FloatFracBits == width - 1 - FloatExpBits
DoubleFracBits == 2 * width - 1 - DoubleExpBits

\* 127 and 1023
Bias(expBits) == 2 ^ (expBits - 1) - 1

\* (input_bits >> 23U) & 0xFF
HostExp(x, expBits, fracBits) == (x \div (2 ^ fracBits)) % (2 ^ expBits)

\* input_bits & 0x7FFFFF
HostFrac(x, fracBits) == x % (2 ^ fracBits)

\* input < 0.0 for a value that is not a NaN: the sign bit, but not of -0.0
HostNegative(x, expBits, fracBits) ==
    /\ (x \div (2 ^ (expBits + fracBits))) % 2 = 1
    /\ x % (2 ^ (expBits + fracBits)) # 0

\* std::numeric_limits<T>::infinity()
Infinity(expBits, fracBits) == (2 ^ expBits - 1) * (2 ^ fracBits)

\* std::numeric_limits<T>::signaling_NaN()
SignalingNaN(expBits, fracBits) ==
    Infinity(expBits, fracBits) + 2 ^ (fracBits - 2)

\* The sign bit of a host value of expBits + fracBits + 1 bits.
SignBit(expBits, fracBits) == 2 ^ (expBits + fracBits)

\* Float(float) and Float(double): the two constructors differ in the field
\* widths only.
FloatFromHost(x, expBits, fracBits) ==
    IF HostExp(x, expBits, fracBits) = 2 ^ expBits - 1 /\ HostFrac(x, fracBits) # 0
    THEN [FloatDefault EXCEPT !.state = "ERROR"]
    ELSE IF HostExp(x, expBits, fracBits) = 2 ^ expBits - 1
    THEN [FloatDefault EXCEPT !.state = "INF",
                              !.sign = HostNegative(x, expBits, fracBits)]
    ELSE Aligned([FloatDefault EXCEPT
            !.mantissa = IF x % (2 ^ (expBits + fracBits)) # 0
                         THEN BitArrayU64(2 ^ fracBits + HostFrac(x, fracBits))
                         ELSE @,
            !.shift = IF x % (2 ^ (expBits + fracBits)) # 0
                      THEN log2(BitArrayU64(2 ^ fracBits + HostFrac(x, fracBits)))
                           - HostExp(x, expBits, fracBits) - 1 + Bias(expBits)
                      ELSE @,
            !.sign = ((x \div (2 ^ (expBits + fracBits))) % 2 = 1)])

\* Float(float)
FloatFromFloat(x) == FloatFromHost(x, FloatExpBits, FloatFracBits)

\* Float(double)
FloatFromDouble(x) == FloatFromHost(x, DoubleExpBits, DoubleFracBits)

\* x | y on unsigned integers
RECURSIVE BitOr(_, _)
BitOr(x, y) ==
    IF x = 0 THEN y
    ELSE IF y = 0 THEN x
    ELSE (IF x % 2 = 1 \/ y % 2 = 1 THEN 1 ELSE 0) + 2 * BitOr(x \div 2, y \div 2)

\* v << n on an unsigned integer of size bits.  A count that is not below
\* size (a wrapped negative count included) is undefined: the build either
\* masks the count to the operand size or shifts every bit out.
HostShl(v, n, size, masked) ==
    IF n >= 0 /\ n < size THEN (v * (2 ^ n)) % (2 ^ size)
    ELSE IF masked THEN (v * (2 ^ (n % size))) % (2 ^ size)
    ELSE 0

\* v >> n on an unsigned integer of size bits, with the same undefined counts
HostShr(v, n, size, masked) ==
    IF n >= 0 /\ n < size THEN v \div (2 ^ n)
    ELSE IF masked THEN v \div (2 ^ (n % size))
    ELSE 0

\* 33U - std::log2(mMantissa.back()), truncated to an unsigned integer: the
\* logarithm is a real number, whole only for a power of two.
FracShift(back) ==
    IF back = 0 THEN width + 1 ELSE (width + 1) - BitLen(back - 1)

\* static_cast<int8_t>(exponent)
SignedCast(v, size) == ((v + 2 ^ (size - 1)) % (2 ^ size)) - 2 ^ (size - 1)

\* The last limb of the mantissa.
Back(a) == a.mantissa[Len(a.mantissa)]

\* operator float(): the fraction bits gathered from the two top limbs
FloatFraction(a, shift, masked) ==
    BitOr(HostShl(Back(a), shift, width, masked),
          IF Len(a.mantissa) > 1
          THEN HostShr(getBlock(a.mantissa, Len(a.mantissa) - 2),
                       width - shift, width, masked)
          ELSE 0)

\* operator float(): fraction, exponent and sign put together
FloatPacked(a, masked) ==
    BitOr(BitOr(FloatFraction(a, FracShift(Back(a)), masked)
                    \div (2 ^ (FloatExpBits + 1)),
                IF log2(a.mantissa) # 0
                THEN ((SignedCast(shiftToExponent(a), FloatExpBits)
                       + Bias(FloatExpBits)) * (2 ^ FloatFracBits)) % (2 ^ width)
                ELSE 0),
          IF a.sign = NEGATIVE THEN SignBit(FloatExpBits, FloatFracBits) ELSE 0)

\* Float::operator float() const
ToFloat(a, masked) ==
    IF a.state = "ERROR" THEN SignalingNaN(FloatExpBits, FloatFracBits)
    ELSE IF a.state = "INF"
    THEN Infinity(FloatExpBits, FloatFracBits)
         + (IF a.sign = NEGATIVE THEN SignBit(FloatExpBits, FloatFracBits) ELSE 0)
    ELSE IF shiftToExponent(a) > Bias(FloatExpBits)
    THEN Infinity(FloatExpBits, FloatFracBits)
    ELSE IF shiftToExponent(a) < -(Bias(FloatExpBits) + 1)
    THEN Infinity(FloatExpBits, FloatFracBits) + SignBit(FloatExpBits, FloatFracBits)
    ELSE FloatPacked(a, masked)

\* operator double(): the fraction bits gathered from the three top limbs
DoubleFraction(a, shift, masked) ==
    BitOr(HostShl(Back(a), shift + width, 2 * width, masked),
          IF Len(a.mantissa) > 2
          THEN BitOr(HostShl(getBlock(a.mantissa, Len(a.mantissa) - 2),
                             shift, 2 * width, masked),
                     HostShr(getBlock(a.mantissa, Len(a.mantissa) - 3),
                             width - shift, width, masked))
          ELSE IF Len(a.mantissa) > 1
          THEN HostShl(getBlock(a.mantissa, Len(a.mantissa) - 2),
                       shift, 2 * width, masked)
          ELSE 0)

\* operator double(): fraction, exponent and sign put together
DoublePacked(a, masked) ==
    BitOr(BitOr(DoubleFraction(a, FracShift(Back(a)), masked)
                    \div (2 ^ (DoubleExpBits + 1)),
                IF log2(a.mantissa) # 0
                THEN ((shiftToExponent(a) + Bias(DoubleExpBits))
                      * (2 ^ DoubleFracBits)) % (2 ^ (2 * width))
                ELSE 0),
          IF a.sign = NEGATIVE THEN SignBit(DoubleExpBits, DoubleFracBits) ELSE 0)

\* Float::operator double() const
ToDouble(a, masked) ==
    IF a.state = "ERROR" THEN SignalingNaN(DoubleExpBits, DoubleFracBits)
    ELSE IF a.state = "INF"
    THEN Infinity(DoubleExpBits, DoubleFracBits)
         + (IF a.sign = NEGATIVE THEN SignBit(DoubleExpBits, DoubleFracBits) ELSE 0)
    ELSE IF shiftToExponent(a) > Bias(DoubleExpBits)
    THEN Infinity(DoubleExpBits, DoubleFracBits)
    ELSE IF shiftToExponent(a) < -(Bias(DoubleExpBits) + 1)
    THEN 0
    ELSE DoublePacked(a, masked)

\* A conversion to a host value: the object, the host bits it was built
\* from (arg.n) and the host bits the conversion returns (arg.v).
HostCall(name, x, value, result) ==
    /\ FloatIdle
    /\ f' = value
    /\ prev' = value
    /\ other' = FloatDefault
    /\ op' = name
    /\ ord' = "none"
    /\ arg' = [NoArg EXCEPT !.n = x, !.v = result]
    /\ UNCHANGED <<bits, pre, bop, hung, stringVars>>

\* static_cast<float>(Float(x)) for the host float of bits x
RoundTripFloat(x, masked) ==
    HostCall("float", x, FloatFromFloat(x), ToFloat(FloatFromFloat(x), masked))

\* static_cast<double>(Float(x)) for the host double of bits x
RoundTripDouble(x, masked) ==
    HostCall("double", x, FloatFromDouble(x), ToDouble(FloatFromDouble(x), masked))

\* static_cast<float>(o) for a Float o
CastFloat(o, masked) == HostCall("castFloat", 0, o, ToFloat(o, masked))

\* static_cast<double>(o) for a Float o
CastDouble(o, masked) == HostCall("castDouble", 0, o, ToDouble(o, masked))

\* The conversion returns.
ReturnHost ==
    /\ ~hung
    /\ op # "idle"
    /\ op' = "idle"
    /\ f' = FloatDefault
    /\ prev' = FloatDefault
    /\ arg' = NoArg
    /\ UNCHANGED <<other, ord, bits, pre, bop, hung, stringVars>>

\* The Floats converted: one and three, scaled by the powers of two, of both
\* signs, and the special states.
HostOperands ==
    {[FloatDefault EXCEPT !.mantissa = <<m>>, !.shift = s, !.sign = sg] :
        m \in {1, 3}, s \in (-MaxHostShift)..MaxHostShift, sg \in BOOLEAN}
    \cup {[FloatDefault EXCEPT !.state = st, !.sign = sg] :
            st \in {"INF", "ERROR"}, sg \in BOOLEAN}
    \cup {[FloatDefault EXCEPT !.sign = sg] : sg \in BOOLEAN}

InitHost ==
    /\ width = HostBlockBits
    /\ operands = HostOperands
    /\ str = NoString
    /\ bits = <<0>>
    /\ pre = <<0>>
    /\ arg = NoArg
    /\ bop = "idle"
    /\ f = FloatDefault
    /\ prev = FloatDefault
    /\ other = FloatDefault
    /\ op = "idle"
    /\ ord = "none"
    /\ hung = FALSE

\* A conversion is called only once the last call is over.
NextHost ==
    \/ FloatIdle /\ \E x \in 0..(2 ^ width - 1), masked \in BOOLEAN :
            RoundTripFloat(x, masked)
    \/ FloatIdle /\ \E x \in 0..(2 ^ (2 * width) - 1), masked \in BOOLEAN :
            RoundTripDouble(x, masked)
    \/ FloatIdle /\ \E o \in operands, masked \in BOOLEAN : CastFloat(o, masked)
    \/ FloatIdle /\ \E o \in operands, masked \in BOOLEAN : CastDouble(o, masked)
    \/ ReturnHost

SpecHost == InitHost /\ [][NextHost]_vars

(***************************************************************************)
(* What a value stands for.                                                *)
(***************************************************************************)

\* Reduced form: a non-empty limb sequence whose last limb is not 0 unless
\* it is the only one.
Reduced(m) == Len(m) >= 1 /\ (Len(m) = 1 \/ m[Len(m)] # 0)

\* (-1)^sign * mantissa
SignedMantissa(x) ==
    IF x.sign = NEGATIVE THEN -Val(x.mantissa) ELSE Val(x.mantissa)

\* value(x) * 2^e for a NORMAL x and e >= x.shift: an integer.
Scaled(x, e) == SignedMantissa(x) * (2 ^ (e - x.shift))

NonZero(x) == Val(x.mantissa) # 0

\* value(r) = value(a) + value(b), all three scaled by 2^e.
SumAt(r, a, b, e) == Scaled(r, e) = Scaled(a, e) + Scaled(b, e)

\* value(r) = value(a) * value(b), both sides scaled by 2^e.
ProductAt(r, a, b, e) ==
    Scaled(r, e) =
        SignedMantissa(a) * SignedMantissa(b) * (2 ^ (e - a.shift - b.shift))

\* |value(q) * value(b) - value(a)| < |value(a)| * 2^(-DIVISION_ACCURACY),
\* all scaled by 2^e.
QuotientWithin(q, a, b, e) ==
    Abs(SignedMantissa(q) * SignedMantissa(b) * (2 ^ (e - q.shift - b.shift))
        - Scaled(a, e))
        < Abs(SignedMantissa(a)) * (2 ^ (e - a.shift - DIVISION_ACCURACY))

\* The order of value(a) and value(b), both scaled by 2^e.
OrderAt(a, b, e) ==
    IF Scaled(a, e) < Scaled(b, e) THEN "less"
    ELSE IF Scaled(a, e) > Scaled(b, e) THEN "greater"
    ELSE "equivalent"

\* Right-aligned form of a NORMAL Float.
RightAlignedForm(x) ==
    x.state = "NORMAL" =>
        \/ Val(x.mantissa) = 0 /\ x.shift = 0
        \/ x.mantissa[1] % 2 = 1

\* The rule for a + b with at least one operand INF and none ERROR, b's sign
\* taken as bsign.
InfRule(r, a, b, bsign) ==
    IF a.state = "INF" /\ b.state = "INF" /\ a.sign # bsign
    THEN r.state = "ERROR"
    ELSE r.state = "INF" /\ r.sign = (IF a.state = "INF" THEN a.sign ELSE bsign)

Arithmetic == {"add", "sub", "mul", "mulSelf", "div"}

(***************************************************************************)
(* The properties.                                                         *)
(***************************************************************************)

\* C1: for NORMAL Floats a and b, a += b leaves a NORMAL value that is exactly
\* value(a) + value(b), whatever the limb counts of the aligned mantissas.
AddExact ==
    (op = "add" /\ prev.state = "NORMAL" /\ other.state = "NORMAL")
        => /\ f.state = "NORMAL"
           /\ SumAt(f, prev, other, Max(f.shift, Max(prev.shift, other.shift)))

\* C2: for a reduced BitArray a, a += b leaves the mathematical sum a + b, and
\* a += v with a one-limb v leaves a + v: no carry is lost.
AddNoCarryLost ==
    /\ (bop = "add" /\ Reduced(pre)) => Val(bits) = Val(pre) + Val(arg.b)
    /\ (bop = "addU32" /\ Reduced(pre)) => Val(bits) = Val(pre) + arg.n

\* C3: for reduced BitArrays a and b, a -= b leaves |a - b| in reduced form.
SubAbsoluteDifference ==
    (bop = "sub" /\ Reduced(pre))
        => /\ Val(bits) = Abs(Val(pre) - Val(arg.b))
           /\ Reduced(bits)

\* C4: for NORMAL Floats a and b, a *= b (b another object, or a itself)
\* leaves a NORMAL value whose sign is the XOR of the two signs and whose
\* value is exactly value(a) * value(b).
MulExact ==
    (op \in {"mul", "mulSelf"} /\ prev.state = "NORMAL" /\ other.state = "NORMAL")
        => /\ f.state = "NORMAL"
           /\ f.sign = (prev.sign # other.sign)
           /\ ProductAt(f, prev, other, Max(f.shift, prev.shift + other.shift))

\* C5: for non-zero NORMAL Floats a and b, q = a / b is NORMAL and satisfies
\* |q * b - a| < |a| * 2^(-DIVISION_ACCURACY).
DivAccurate ==
    (op = "div" /\ ~hung /\ prev.state = "NORMAL" /\ other.state = "NORMAL"
        /\ NonZero(prev) /\ NonZero(other))
        => /\ f.state = "NORMAL"
           /\ QuotientWithin(f, prev, other,
                             Max(f.shift + other.shift,
                                 prev.shift + DIVISION_ACCURACY))

\* C6: for NORMAL Floats a and b of the same sign, both in right-aligned form,
\* a <=> b is the numerical order of value(a) and value(b).
CompareIsNumericalOrder ==
    (op = "cmp" /\ prev.state = "NORMAL" /\ other.state = "NORMAL"
        /\ prev.sign = other.sign
        /\ RightAlignedForm(prev) /\ RightAlignedForm(other))
        => ord = OrderAt(prev, other, Max(prev.shift, other.shift))

\* C7: +=, -=, *= and /= on Floats in right-aligned form leave a Float in
\* right-aligned form: mantissa 0 with shift 0, or bit 0 of the mantissa set.
RightAligned ==
    (op \in Arithmetic /\ ~hung /\ RightAlignedForm(prev) /\ RightAlignedForm(other))
        => RightAlignedForm(f)

\* C8: every BitArray reachable by the public mutating operations is in
\* reduced form.
ReducedForm == Reduced(bits)

\* C9: for +=, -=, *= and /=, an operand in state ERROR leaves the result in
\* state ERROR with mantissa 0 and shift 0.
ErrorPropagates ==
    (op \in Arithmetic /\ (prev.state = "ERROR" \/ other.state = "ERROR"))
        => /\ f.state = "ERROR"
           /\ EqualU32(f.mantissa, 0)
           /\ f.shift = 0

\* A NORMAL value with a mantissa and a shift other than 0 meets an ERROR.
ErrorPropagatesWitness ==
    /\ op \in Arithmetic
    /\ prev.state = "NORMAL" /\ NonZero(prev) /\ prev.shift # 0
    /\ other.state = "ERROR"
    /\ f.state = "ERROR"

\* C10: for a + b with neither operand ERROR and at least one INF, the result
\* is ERROR exactly when both are INF of opposite signs, and otherwise INF with
\* the sign of the INF operand; a - b follows the rule with b's sign flipped.
InfAddition ==
    (op \in {"add", "sub"} /\ prev.state # "ERROR" /\ other.state # "ERROR"
        /\ (prev.state = "INF" \/ other.state = "INF"))
        => InfRule(f, prev, other,
                   IF op = "sub" THEN ~other.sign ELSE other.sign)

\* A NORMAL value minus +INF is -INF.
InfAdditionWitness ==
    /\ op = "sub"
    /\ prev.state = "NORMAL"
    /\ other.state = "INF" /\ other.sign = POSITIVE
    /\ f.state = "INF" /\ f.sign = NEGATIVE

\* A NORMAL Float whose mantissa is zero, whatever its shift and sign.
ZeroValued(x) == x.state = "NORMAL" /\ Val(x.mantissa) = 0

\* C11: an INF Float times a NORMAL Float whose mantissa is zero, in either
\* order, leaves state ERROR, for every such zero.
InfTimesZeroIsError ==
    (op = "mul" /\ \/ prev.state = "INF" /\ ZeroValued(other)
                   \/ ZeroValued(prev) /\ other.state = "INF")
        => f.state = "ERROR"

\* C12: a NORMAL Float with non-zero mantissa divided by a NORMAL Float whose
\* mantissa is zero returns, and leaves state INF with the XOR of the signs.
DivByZeroIsInf ==
    (op = "div" /\ prev.state = "NORMAL" /\ NonZero(prev) /\ ZeroValued(other))
        => /\ ~hung
           /\ f.state = "INF"
           /\ f.sign = (prev.sign # other.sign)

\* C13: for reduced BitArrays x and y, (x + y) - y == x.
AddThenSubIsIdentity ==
    (bop = "addSub" /\ Reduced(pre)) => Equal(bits, pre)

AddCommutes ==
    (op = "addCommuted" /\ prev.state = "NORMAL" /\ other.state = "NORMAL"
        /\ RightAlignedForm(prev) /\ RightAlignedForm(other))
        => ord = "true"

\* The NORMAL zero of the given sign: mantissa 0 and shift 0.
IsZeroOfSign(x, sign) ==
    x.state = "NORMAL" /\ EqualU32(x.mantissa, 0) /\ x.shift = 0 /\ x.sign = sign

\* C16: for p = +0 and n = -0, p == n is true and p <=> n is equivalent.
ZerosCompareEqual ==
    (IsZeroOfSign(prev, POSITIVE) /\ IsZeroOfSign(other, NEGATIVE))
        => /\ op = "eq" => ord = "true"
           /\ op = "cmp" => ord = "equivalent"

(***************************************************************************)
(* What a decimal string stands for: optional sign, whole-number digits,   *)
(* optional '.' and decimal digits, optional 'e' and a signed exponent.    *)
(***************************************************************************)

\* s without its leading sign character, if it has one.
Unsigned(s) ==
    IF Len(s) > 0 /\ (s[1] = "+" \/ s[1] = "-") THEN substr(s, 1, npos) ELSE s

\* s up to its first c, and s after its first c.
UpTo(s, c) == IF find(s, c, 0) = npos THEN s ELSE substr(s, 0, find(s, c, 0))

After(s, c) ==
    IF find(s, c, 0) = npos THEN <<>> ELSE substr(s, find(s, c, 0) + 1, npos)

WholeOf(input) == UpTo(UpTo(Unsigned(input), "."), "e")

DecimalOf(input) == UpTo(After(Unsigned(input), "."), "e")

ExponentOf(input) == After(Unsigned(input), "e")

HasNonDigit(s) == \E i \in 1..Len(s) : ~isdigit(s[i])

\* The integer a string of digits denotes.
RECURSIVE DigitsValue(_)
DigitsValue(s) ==
    IF Len(s) = 0 THEN 0
    ELSE 10 * DigitsValue(SubSeq(s, 1, Len(s) - 1))
            + (Code(s[Len(s)]) - Code("0"))

\* A string of the grammar.
WellFormed(input) ==
    /\ Len(WholeOf(input)) >= 1
    /\ ~HasNonDigit(WholeOf(input))
    /\ ~HasNonDigit(DecimalOf(input))
    /\ ~HasNonDigit(Unsigned(ExponentOf(input)))
    /\ find(input, "e", 0) # npos => Len(Unsigned(ExponentOf(input))) >= 1

\* floor(|x|) of a NORMAL x, as a BitArray.
WholePart(x) ==
    IF x.shift >= 0 THEN ShiftRight(x.mantissa, x.shift)
    ELSE ShiftLeft(x.mantissa, -x.shift)

\* The digits of W and D with the decimal point moved exp places.
MovedDigits(W, D, exp) ==
    IF exp > 0 THEN W \o D \o Repeat(Max(exp - Len(D), 0), "0")
    ELSE Repeat(Max(-exp - Len(W), 0), "0") \o W \o D

MovedWhole(W, D, exp) ==
    substr(MovedDigits(W, D, exp), 0, Max(Len(MovedDigits(W, D, exp))
                                            - Max(Len(D) - exp, 0), 0))

MovedDecimal(W, D, exp) ==
    substr(MovedDigits(W, D, exp), Len(MovedWhole(W, D, exp)), npos)

\* C17: Float(input) is ERROR whenever the whole-number, the decimal or the
\* exponent substring of input holds a character that is not a digit, a
\* leading sign of the exponent aside; a sign or a blank after the decimal
\* point is such a character.
NonDigitIsError ==
    (/\ op = "fromString"
     /\ \/ HasNonDigit(WholeOf(str.input))
        \/ HasNonDigit(DecimalOf(str.input))
        \/ HasNonDigit(Unsigned(ExponentOf(str.input))))
        => f.state = "ERROR"

\* C18: Float(input) is ERROR when input is empty or is only a sign character.
EmptyOrSignIsError ==
    (op = "fromString" /\ str.input \in {<<>>, <<"+">>, <<"-">>})
        => f.state = "ERROR"

\* C19: for a string of the grammar, Float(input) is NORMAL, negative exactly
\* when input starts with '-', and, when input has no exponent, its whole
\* part is the integer the whole-number digits denote.
StringSignAndWhole ==
    (op = "fromString" /\ WellFormed(str.input))
        => /\ f.state = "NORMAL"
           /\ f.sign = (str.input[1] = "-")
           /\ find(str.input, "e", 0) = npos =>
                  Equal(WholePart(f),
                        BitArrayU64(DigitsValue(WholeOf(str.input))))

\* C20: shiftStrings(W, D, exp) for digit strings W, D and exp # 0 returns
\* the digits of W and D, padded with zeros, split where the decimal point
\* lies after moving it exp places; and Float("W.DeX") equals the Float of
\* that exponent-free spelling.
ShiftMovesPoint ==
    /\ op = "shiftStrings" =>
           /\ str.new_whole = MovedWhole(str.whole, str.decimal, str.exp)
           /\ str.new_decimal = MovedDecimal(str.whole, str.decimal, str.exp)
    /\ (/\ op = "fromString"
        /\ WellFormed(str.input)
        /\ Unsigned(str.input) = str.input
        /\ str.exp # 0
        /\ Fits(MovedWhole(str.whole, str.decimal, str.exp),
                MovedDecimal(str.whole, str.decimal, str.exp)))
           => FloatEq(f, FloatFromString(
                  MovedWhole(str.whole, str.decimal, str.exp) \o <<".">>
                      \o MovedDecimal(str.whole, str.decimal, str.exp)))

\* Bit j of the number a limb sequence stands for.
BitAt(m, j) ==
    IF j \div width >= Len(m) THEN 0 ELSE LimbBit(m[j \div width + 1], j % width)

\* C23: x.setBit(i, v) on a reduced x leaves bit i equal to v and every other
\* bit as it was, also when i lies beyond the limbs x has.
SetBitFrame ==
    (bop = "setBit" /\ Reduced(pre))
        => \A j \in 0..(2 * MaxBits + BlockBits) :
              BitAt(bits, j) = (IF j = arg.n THEN arg.v ELSE BitAt(pre, j))

\* C24: x.getBit(i), i within the limbs of x, returns 1 when bit i is set and
\* 0 when it is not.
GetBitIsBit ==
    bop = "getBit" => arg.v = BitAt(pre, arg.n)

\* C25: for a reduced N and a non-zero d, N.divide(d, accuracy) returns and
\* leaves N equal to floor(N * 2^accuracy / d).
DivideIsFloor ==
    (bop = "divide" /\ Reduced(pre) /\ Reduced(arg.b) /\ Val(arg.b) # 0)
        => /\ ~hung
           /\ Val(bits) = (Val(pre) * (2 ^ arg.n)) \div Val(arg.b)

\* C27: a /= b returns for every pair of Floats the public interface can
\* build, also when b is a NORMAL value whose mantissa earlier arithmetic
\* left 0.
DivisionReturns == op = "div" => ~hung

\* C28: for a NORMAL x, +INF <=> x is greater and -INF <=> x is less, and
\* <=> never finds an INF value and a NORMAL value equivalent.
InfComparesOutside ==
    /\ (op = "cmp" /\ prev.state = "INF" /\ other.state = "NORMAL")
          => ord = (IF prev.sign = POSITIVE THEN "greater" ELSE "less")
    /\ (op = "cmp" /\ prev.state = "NORMAL" /\ other.state = "INF")
          => ord # "equivalent"

\* The state of a / b for NORMAL a and b is one the mantissas allow: ERROR
\* only for 0 / 0, INF only for a non-zero a over 0, NORMAL for a non-zero b.
QuotientState(r, a, b) ==
    /\ r.state = "ERROR" => (~NonZero(a) /\ ~NonZero(b))
    /\ r.state = "INF" => (NonZero(a) /\ ~NonZero(b))
    /\ NonZero(b) => r.state = "NORMAL"

\* C29: +=, -= and *= on NORMAL operands leave a NORMAL value; /= on NORMAL
\* operands leaves ERROR only for 0 / 0, INF only for non-zero / 0 and NORMAL
\* otherwise; no arithmetic operator leaves a receiver in state ERROR in
\* another state.
StateClosure ==
    /\ (op \in {"add", "sub", "mul", "mulSelf"}
          /\ prev.state = "NORMAL" /\ other.state = "NORMAL")
          => f.state = "NORMAL"
    /\ (op = "div" /\ ~hung /\ prev.state = "NORMAL" /\ other.state = "NORMAL")
          => QuotientState(f, prev, other)
    /\ (op \in Arithmetic /\ ~hung /\ prev.state = "ERROR")
          => f.state = "ERROR"

\* C26: sqrt(f) returns for every POSITIVE Float f in state NORMAL, also when
\* the Newton step gives the current iterate back.
SqrtReturns ==
    (op = "sqrt" /\ prev.sign = POSITIVE /\ prev.state = "NORMAL") => ~hung

\* exact * 10^n * 2^limit for the decimal W.D, n = Len(D).
ExactScaled(W, D, limit) ==
    (DigitsValue(W) * (10 ^ Len(D)) + DigitsValue(D)) * (2 ^ limit)

\* |value(x)| * 10^n * 2^limit for a NORMAL x with x.shift <= limit.
BuiltScaled(x, n, limit) ==
    Val(x.mantissa) * (2 ^ (limit - x.shift)) * (10 ^ n)

\* The constructed x is the decimal W.D cut after limit binary places.
TruncatedTo(x, W, D, limit) ==
    /\ x.state = "NORMAL"
    /\ x.shift <= limit
    /\ BuiltScaled(x, Len(D), limit) <= ExactScaled(W, D, limit)
    /\ ExactScaled(W, D, limit) - BuiltScaled(x, Len(D), limit) < 10 ^ Len(D)

\* C30: for a string W.D of the grammar with no exponent and no leading '+',
\* D having n >= 1 digits once its trailing zeros are stripped, the
\* constructor builds at most CONSTRUCTOR_MAX_ITERATIONS * n bits after the
\* binary point and a magnitude v with
\* 0 <= W.D - v < 2^-(CONSTRUCTOR_MAX_ITERATIONS * n); v is W.D when the
\* binary expansion of 0.D ends within that many bits.
DecimalBitsTruncate ==
    (/\ op = "fromString"
     /\ WellFormed(str.input)
     /\ find(str.input, "e", 0) = npos
     /\ str.input[1] # "+"
     /\ Len(str.decimal) >= 1)
        => TruncatedTo(f, str.whole, str.decimal,
                       CONSTRUCTOR_MAX_ITERATIONS * Len(str.decimal))


\* A host value that is finite, normal and not zero.
HostNormal(x, expBits, fracBits) ==
    /\ HostExp(x, expBits, fracBits) # 0
    /\ HostExp(x, expBits, fracBits) # 2 ^ expBits - 1

\* The Float built from x stands for (2^fracBits + fraction) * 2^(rawExponent
\* - bias - fracBits): both sides scaled by 2^(bias + fracBits).
DecodedExactly(a, x, expBits, fracBits) ==
    /\ a.state = "NORMAL"
    /\ a.sign = ((x \div (2 ^ (expBits + fracBits))) % 2 = 1)
    /\ Bias(expBits) + fracBits - a.shift >= 0
    /\ Val(a.mantissa) * (2 ^ (Bias(expBits) + fracBits - a.shift))
       = (2 ^ fracBits + HostFrac(x, fracBits))
         * (2 ^ HostExp(x, expBits, fracBits))

\* C21: for every finite, normal, non-zero host float x, static_cast<float>(
\* Float(x)) has the sign, exponent and fraction bits of x, and likewise for
\* every such host double; the construction decodes x exactly.
HostRoundTrip ==
    /\ (op = "float" /\ HostNormal(arg.n, FloatExpBits, FloatFracBits))
       => /\ arg.v = arg.n
          /\ DecodedExactly(f, arg.n, FloatExpBits, FloatFracBits)
    /\ (op = "double" /\ HostNormal(arg.n, DoubleExpBits, DoubleFracBits))
       => /\ arg.v = arg.n
          /\ DecodedExactly(f, arg.n, DoubleExpBits, DoubleFracBits)

\* C22: a NORMAL Float whose binary exponent exceeds the host maximum converts
\* to the infinity of its own sign, and one whose binary exponent is below
\* the host minimum never converts to an infinity.
OverflowKeepsSign ==
    /\ (op = "castFloat" /\ f.state = "NORMAL"
            /\ shiftToExponent(f) > Bias(FloatExpBits))
       => arg.v = Infinity(FloatExpBits, FloatFracBits)
                  + (IF f.sign = NEGATIVE
                     THEN SignBit(FloatExpBits, FloatFracBits) ELSE 0)
    /\ (op = "castFloat" /\ f.state = "NORMAL"
            /\ shiftToExponent(f) < -(Bias(FloatExpBits) + 1))
       => arg.v % SignBit(FloatExpBits, FloatFracBits)
          # Infinity(FloatExpBits, FloatFracBits)
    /\ (op = "castDouble" /\ f.state = "NORMAL"
            /\ shiftToExponent(f) > Bias(DoubleExpBits))
       => arg.v = Infinity(DoubleExpBits, DoubleFracBits)
                  + (IF f.sign = NEGATIVE
                     THEN SignBit(DoubleExpBits, DoubleFracBits) ELSE 0)
    /\ (op = "castDouble" /\ f.state = "NORMAL"
            /\ shiftToExponent(f) < -(Bias(DoubleExpBits) + 1))
       => arg.v % SignBit(DoubleExpBits, DoubleFracBits)
          # Infinity(DoubleExpBits, DoubleFracBits)

====
